---- MODULE Spec2Model ----
(***************************************************************************)
(* NetworkedStorage (packages/utils/src/utils/networked-storage.ts): a     *)
(* block facade over a local tiered blockstore that falls back to racing   *)
(* the configured block brokers when a block is missing locally.           *)
(*                                                                         *)
(* One facade call (put, putMany, get, getMany) is in flight at a time and *)
(* advances from await to await; delete is a single await on the Local     *)
(* Tier and may interleave with the call in flight at any of its awaits.   *)
(* Inside a get the broker retrieve attempts run concurrently.             *)
(*                                                                         *)
(* Spec is the facade with its batch methods; SpecSession adds the facade  *)
(* createSession returns, SpecObserver a progress observer that throws,    *)
(* SpecLive states what a get needs to end, and SpecDns is the DNS resolve *)
(* utility, which shares nothing with the facade.                          *)
(***************************************************************************)
EXTENDS Integers, Sequences, FiniteSets, TLC

\* Block bytes are the values 1..MaxBlock.
MaxBlock == 2
\* Longest input of putMany / getMany.
MaxItems == 2

Blocks == 1..MaxBlock
\* `block` before a retrieve has returned anything.
NoBlock == 0

\* A CID binds a multihash code to a digest.
cidSha == [code |-> "sha2-256", digest |-> 0]
cidBlake == [code |-> "blake3", digest |-> 0]
cidIdentity == [code |-> "identity", digest |-> 1]
CIDs == {cidSha, cidBlake, cidIdentity}

\* What hasher.digest(block) yields for each multihash code.
Digest(code, b) ==
  CASE code = "identity" -> b
    [] code = "sha2-256" -> b % 2
    [] OTHER -> (b + 1) % 2

\* components.hashers: the multihash codes a hasher is configured for.
hashers == {"sha2-256", "identity"}

\* The capability sets of a BlockBroker (retrieve and announce are optional).
BrokerRA == [retrieve |-> TRUE, announce |-> TRUE]
BrokerR == [retrieve |-> TRUE, announce |-> FALSE]
BrokerA == [retrieve |-> FALSE, announce |-> TRUE]
\* components.blockBrokers, as handed to the constructor.
BrokerLists ==
  {<<>>, <<BrokerA>>, <<BrokerR>>, <<BrokerRA, BrokerRA>>, <<BrokerA, BrokerR>>}

VARIABLES
  blockstore,     \* components.blockstore: the stored blocks, by CID
  blockBrokers,   \* components.blockBrokers
  op,             \* the facade method in flight
  pc,             \* the await the call in flight is at
  cur,            \* the item being processed: [cid, block]
  pulled,         \* putMany / getMany: the items pulled from the input so far
  offline,        \* options.offline
  callerAborted,  \* options.signal.aborted
  status,         \* "idle", "running", "done" (returned), "failed" (threw)
  out,            \* what the call returned, or a batch call yielded last
  error,          \* what the call threw
  events,         \* the progress events passed to options.onProgress (per item)
  race,           \* raceBlockRetrievers: "idle", "pending", "resolved", "rejected"
  attempts,       \* one entry per broker: its retrieve attempt
  signalAborted,  \* signal.aborted of the combined anySignal
  cleared,        \* signal.clear() has run
  winner,         \* the attempt Promise.any resolved with (0: none)
  block,          \* get's `block`: what raceBlockRetrievers returned
  announcing,     \* one entry per broker: its announce call
  counts,         \* per item: broker.retrieve, broker.announce, child.put invocations
  hist,           \* per call: what its existence check saw, deletes since, the put before it
  sessions,       \* createSession: the facade it returned and the facade a call is made on
  dns             \* the DNS resolve utility: one call of resolve(domain, options)

vars == <<blockstore, blockBrokers, op, pc, cur, pulled, offline, callerAborted,
          status, out, error, events, race, attempts, signalAborted, cleared,
          winner, block, announcing, counts, hist, sessions, dns>>

Idx == 1..Len(blockBrokers)

NoError == [kind |-> "none", errors |-> <<>>]
Err(k) == [kind |-> k, errors |-> <<>>]
AggregateError(errs) == [kind |-> "AggregateError", errors |-> errs]

------------------------------------------------------------------------------
\* The Local Tier: TieredBlockstore([IdentityBlockstore, components.blockstore])

IsIdentity(cid) == cid.code = "identity"

\* child.has
Has(store, cid) == IsIdentity(cid) \/ cid \in DOMAIN store

\* child.get, where Has
LocalGet(store, cid) == IF IsIdentity(cid) THEN cid.digest ELSE store[cid]

\* Faulty variant: a put that stores nothing
LocalPutDropped(store, cid, b) == store

\* child.put
LocalPut(store, cid, b) ==
  [c \in DOMAIN store \cup {cid} |-> IF c = cid THEN b ELSE store[c]]

\* child.delete
LocalDelete(store, cid) == [c \in DOMAIN store \ {cid} |-> store[c]]

------------------------------------------------------------------------------
\* The verifier

\* Faulty variant: a verifier is built whatever the multihash code
HasHasherAlways(cid) == TRUE

\* this.hashers[cid.multihash.code] is not null
HasHasher(cid) == cid.code \in hashers

\* validateFn(block) of getCidBlockVerifierFunction returns (does not throw)
Verify(cid, b) == Digest(cid.code, b) = cid.digest

isRetrievingBlockBroker(broker) == broker.retrieve

\* the brokers raceBlockRetrievers calls retrieve on
Retrievers(brokers) ==
  {i \in 1..Len(brokers) : isRetrievingBlockBroker(brokers[i])}

\* the brokers whose announce is defined
Announcers(brokers) == {i \in 1..Len(brokers) : brokers[i].announce}

------------------------------------------------------------------------------
\* State after construction, and the bookkeeping of one call

NoAttempt ==
  [st |-> "none", cbInvoked |-> FALSE, blocksWereValidated |-> FALSE,
   block |-> NoBlock, err |-> "none"]

ZeroCounts(brokers) ==
  [retrieve |-> [i \in 1..Len(brokers) |-> 0],
   announce |-> [i \in 1..Len(brokers) |-> 0],
   put |-> 0]

\* no session facade has been created; calls are made on the facade itself
NoSession == [created |-> FALSE, self |-> "root", other |-> <<>>, scoped |-> <<>>]

\* resolve has not been called
DnsIdle ==
  [pc |-> "idle", domain |-> "none", signal |-> "none", listening |-> FALSE,
   cancelled |-> FALSE, events |-> <<>>, result |-> "none"]

Init ==
  /\ blockstore = [c \in {} |-> NoBlock]
  /\ blockBrokers \in BrokerLists
  /\ op = "none"
  /\ pc = "done"
  /\ cur = [cid |-> cidSha, block |-> NoBlock]
  /\ pulled = 0
  /\ offline = FALSE
  /\ callerAborted = FALSE
  /\ status = "idle"
  /\ out = <<>>
  /\ error = NoError
  /\ events = <<>>
  /\ race = "idle"
  /\ attempts = [i \in 1..Len(blockBrokers) |-> NoAttempt]
  /\ signalAborted = FALSE
  /\ cleared = FALSE
  /\ winner = 0
  /\ block = NoBlock
  /\ announcing = [i \in 1..Len(blockBrokers) |-> "none"]
  /\ counts = ZeroCounts(blockBrokers)
  /\ hist = [hit |-> FALSE, deleted |-> FALSE, abortedRacing |-> FALSE,
             before |-> <<>>, fetched |-> {}]
  /\ sessions = NoSession
  /\ dns = DnsIdle

\* the race and announce state of one item: nothing started yet
ResetItem ==
  /\ race' = "idle"
  /\ attempts' = [i \in Idx |-> NoAttempt]
  /\ signalAborted' = FALSE
  /\ cleared' = FALSE
  /\ winner' = 0
  /\ block' = NoBlock
  /\ announcing' = [i \in Idx |-> "none"]

KeepItem ==
  UNCHANGED <<race, attempts, signalAborted, cleared, winner, block, announcing>>

\* the call throws e
Throw(e) ==
  /\ status' = "failed"
  /\ pc' = "done"
  /\ error' = e

\* the single-item call returns v
Return(v) ==
  /\ status' = "done"
  /\ pc' = "done"
  /\ out' = <<v>>

\* a batch call is done with the current item and goes back to its input
Advance ==
  /\ status' = status
  /\ pc' = "pull"
  /\ UNCHANGED <<cur, pulled, hist>>
  /\ KeepItem

GetItems == [cid : CIDs, block : {NoBlock}]
PutItems == [cid : CIDs, block : Blocks]

\* a progress event of the method in flight
Ev(phase) == <<op, phase>>

------------------------------------------------------------------------------
\* The caller: a call starts when none is in flight

\* the CIDs a get fetched through the race and stored, by the facade the get
\* was made on, with no delete since: what the call that just returned adds
Fetched ==
  IF op = "get" /\ status = "done" /\ race = "resolved" /\ ~hist.deleted
  THEN hist.fetched \cup {[cid |-> cur.cid, by |-> sessions.self]}
  ELSE hist.fetched

Start(o, it, off, evs, at) ==
  /\ status # "running"
  /\ op' = o
  /\ cur' = it
  /\ pulled' = 0
  /\ offline' = off
  /\ callerAborted' = FALSE
  /\ status' = "running"
  /\ pc' = at
  /\ out' = <<>>
  /\ error' = NoError
  /\ events' = evs
  /\ counts' = ZeroCounts(blockBrokers)
  /\ hist' = [hit |-> FALSE, deleted |-> FALSE, abortedRacing |-> FALSE,
              before |-> IF o = "put" /\ op = "put" /\ status = "done"
                            /\ cur.cid = it.cid /\ ~hist.deleted
                         THEN <<[announce |-> counts.announce, put |-> counts.put,
                                 dup |-> events = <<Ev("duplicate")>>]>>
                         ELSE <<>>,
              fetched |-> Fetched]
  /\ ResetItem
  /\ UNCHANGED <<blockstore, blockBrokers, sessions, dns>>

CallPut == \E it \in PutItems : Start("put", it, FALSE, <<>>, "check")

CallPutMany ==
  Start("putMany", cur, FALSE, <<<<"putMany", "blockstore:put-many">>>>, "pull")

CallGet ==
  \E it \in GetItems, off \in BOOLEAN : Start("get", it, off, <<>>, "check")

CallGetMany ==
  \E off \in BOOLEAN :
    Start("getMany", cur, off, <<<<"getMany", "blockstore:get-many">>>>, "pull")

\* putMany / getMany pull the next item of their input, or the input has ended
Pull ==
  /\ status = "running"
  /\ pc = "pull"
  /\ \/ /\ pulled < MaxItems
        /\ \E it \in (IF op = "putMany" THEN PutItems ELSE GetItems) : cur' = it
        /\ pulled' = pulled + 1
        /\ pc' = "check"
        /\ hist' = [hist EXCEPT !.hit = FALSE, !.deleted = FALSE,
                                !.abortedRacing = FALSE]
        /\ ResetItem
        /\ events' = <<>>
        /\ counts' = ZeroCounts(blockBrokers)
        /\ UNCHANGED status
     \/ /\ status' = "done"
        /\ pc' = "done"
        /\ UNCHANGED <<cur, pulled, hist, events, counts>>
        /\ KeepItem
  /\ UNCHANGED <<blockstore, blockBrokers, sessions, dns, op, offline,
                 callerAborted, out, error>>

\* options.signal fires while a get / getMany is in flight; the combined
\* signal follows it until signal.clear() has removed its listeners
CallerAbort ==
  /\ status = "running"
  /\ op \in {"get", "getMany"}
  /\ ~callerAborted
  /\ callerAborted' = TRUE
  /\ signalAborted' = (signalAborted \/ (race # "idle" /\ ~cleared))
  /\ hist' = [hist EXCEPT !.abortedRacing = (race = "pending")]
  /\ UNCHANGED <<blockstore, blockBrokers, sessions, dns, op, pc, cur, pulled, offline, status,
                 out, error, events, race, attempts, cleared, winner, block,
                 announcing, counts>>

\* delete(cid): one await on child.delete
Delete ==
  \E cid \in CIDs :
    /\ blockstore' = LocalDelete(blockstore, cid)
    /\ hist' = [hist EXCEPT
         !.deleted = @ \/ (cid = cur.cid /\ cid \in DOMAIN blockstore),
         !.fetched = {f \in @ : f.cid # cid}]
    /\ UNCHANGED <<blockBrokers, sessions, dns, op, pc, cur, pulled, offline, callerAborted,
                   status, out, error, events, race, attempts, signalAborted,
                   cleared, winner, block, announcing, counts>>

------------------------------------------------------------------------------
\* Announce fan-out: Promise.all(blockBrokers.map(broker => broker.announce?.()))

\* every broker with an announce is called
Announcing0 ==
  [i \in Idx |-> IF i \in Announcers(blockBrokers) THEN "pending" ELSE "none"]

CountAnnounce(c) ==
  [c EXCEPT !.announce = [i \in Idx |->
     IF i \in Announcers(blockBrokers) THEN @[i] + 1 ELSE @[i]]]

\* Promise.all rejects as soon as one announce rejects
PromiseAllRejects(ann) == \E i \in DOMAIN ann : ann[i] = "failed"

\* Faulty variant: the fan-out is not awaited, only its failures are seen
PromiseAllDoesNotWait(ann) == \A i \in DOMAIN ann : ann[i] # "failed"

\* Promise.all resolves when no announce is pending
PromiseAllResolves(ann) == \A i \in DOMAIN ann : ann[i] \in {"none", "ok"}

\* what follows `await Promise.all(...)` in each method; evs: the events so far
AfterAnnounce(evs) ==
  CASE op = "put" ->
         /\ events' = Append(evs, Ev("blockstore:put"))
         /\ pc' = "write"
         /\ UNCHANGED <<status, out>>
    [] op = "putMany" ->
         /\ events' = evs
         /\ pc' = "write"
         /\ UNCHANGED <<status, out>>
    [] op = "get" ->
         /\ events' = evs
         /\ Return([cid |-> cur.cid, block |-> block])
    [] op = "getMany" ->
         /\ events' = evs
         /\ pc' = "read"
         /\ UNCHANGED <<status, out>>

\* an announce of the fan-out settles
AnnounceSettle ==
  /\ status = "running"
  /\ pc = "announce"
  /\ \E i \in Idx, ok \in BOOLEAN :
       /\ announcing[i] = "pending"
       /\ announcing' = [announcing EXCEPT ![i] = IF ok THEN "ok" ELSE "failed"]
       /\ IF PromiseAllRejects(announcing')
          THEN /\ Throw(Err("ERR_ANNOUNCE"))
               /\ UNCHANGED <<out, events>>
          ELSE IF PromiseAllResolves(announcing')
          THEN /\ AfterAnnounce(events)
               /\ error' = error
          ELSE UNCHANGED <<pc, status, out, events, error>>
  /\ UNCHANGED <<blockstore, blockBrokers, sessions, dns, op, cur, pulled, offline, callerAborted,
                 race, attempts, signalAborted, cleared, winner, block, counts,
                 hist>>

------------------------------------------------------------------------------
\* put / putMany

\* Faulty variant: put never looks at the existence check
PutNeverSkips(has) == FALSE

\* put skips a block the Local Tier already has
PutSkips(has) == has

\* `await this.child.has(cid)` and what follows up to the next await
PutCheck ==
  /\ status = "running"
  /\ pc = "check"
  /\ op \in {"put", "putMany"}
  /\ IF PutSkips(Has(blockstore, cur.cid))
     THEN /\ events' = Append(events, Ev("duplicate"))
          /\ UNCHANGED <<counts, error>>
          /\ IF op = "put"
             THEN /\ Return(cur.cid)
                  /\ UNCHANGED <<cur, pulled, hist>>
                  /\ KeepItem
             ELSE /\ Advance
                  /\ out' = out
     ELSE /\ announcing' = Announcing0
          /\ counts' = CountAnnounce(counts)
          /\ IF PromiseAllResolves(announcing')
             THEN AfterAnnounce(Append(events, Ev("providers:notify")))
             ELSE /\ events' = Append(events, Ev("providers:notify"))
                  /\ pc' = "announce"
                  /\ UNCHANGED <<status, out>>
          /\ UNCHANGED <<error, cur, pulled, hist, race, attempts, signalAborted,
                         cleared, winner, block>>
  /\ UNCHANGED <<blockstore, blockBrokers, sessions, dns, op, offline, callerAborted>>

\* `this.child.put(cid, block, options)` settles
PutWrite ==
  /\ status = "running"
  /\ pc = "write"
  /\ counts' = [counts EXCEPT !.put = @ + 1]
  /\ \E ok \in BOOLEAN :
       IF ok
       THEN /\ blockstore' = LocalPut(blockstore, cur.cid, cur.block)
            /\ out' = <<cur.cid>>
            /\ error' = error
            /\ IF op = "put"
               THEN /\ status' = "done"
                    /\ pc' = "done"
                    /\ UNCHANGED <<cur, pulled, hist>>
                    /\ KeepItem
               ELSE Advance
       ELSE /\ Throw(Err("ERR_PUT_FAILED"))
            /\ UNCHANGED <<blockstore, out, cur, pulled, hist>>
            /\ KeepItem
  /\ UNCHANGED <<blockBrokers, sessions, dns, op, offline, callerAborted, events>>

------------------------------------------------------------------------------
\* get / getMany

\* Faulty variant: get goes to the brokers although the Local Tier has the block
NeedsNetworkIgnoringHas(off, has) == ~off

\* Faulty variant: get goes to the brokers although offline was asked for
NeedsNetworkIgnoringOffline(off, has) == ~has

\* get goes to the brokers unless offline or the block is in the Local Tier
NeedsNetwork(off, has) == ~off /\ ~has

\* Faulty variant: the race gives up at the first rejection, as Promise.race would
PromiseAnyRejectsEarly(atts, rs) == \E i \in rs : atts[i].st = "rejected"

\* Faulty variant: the race only ever ends with a block
PromiseAnyNeverRejects(atts, rs) == FALSE

\* Promise.any rejects once every promise handed to it has rejected
PromiseAnyRejects(atts, rs) == \A i \in rs : atts[i].st = "rejected"

\* AggregateError.errors: the attempts' failures, in the order of the retrievers
ErrorsOf(atts) ==
  LET sel == SelectSeq([i \in DOMAIN atts |-> i],
                       LAMBDA i : i \in Retrievers(blockBrokers))
  IN [k \in 1..Len(sel) |-> atts[sel[k]].err]

\* an attempt returns the block when the broker's own validateFn call passed
\* or the engine's validateFn(block) passes
Accepts(blocksWereValidated, cid, b) == blocksWereValidated \/ Verify(cid, b)

\* `await this.child.has(cid)` and what follows up to the next await: the
\* local read, or raceBlockRetrievers up to `await Promise.any(...)`
GetCheck ==
  /\ status = "running"
  /\ pc = "check"
  /\ op \in {"get", "getMany"}
  /\ LET has == Has(blockstore, cur.cid)
         rs == Retrievers(blockBrokers)
     IN IF NeedsNetwork(offline, has)
        THEN /\ events' = Append(events, Ev("providers:get"))
             /\ hist' = [hist EXCEPT !.hit = has]
             /\ IF ~HasHasher(cur.cid)
                THEN /\ Throw(Err("ERR_UNKNOWN_HASH_ALG"))
                     /\ UNCHANGED <<race, attempts, signalAborted, cleared, counts>>
                ELSE /\ attempts' = [i \in Idx |->
                          IF i \in rs THEN [NoAttempt EXCEPT !.st = "pending"]
                          ELSE NoAttempt]
                     /\ counts' = [counts EXCEPT !.retrieve = [i \in Idx |->
                          IF i \in rs THEN @[i] + 1 ELSE @[i]]]
                     /\ signalAborted' = callerAborted
                     /\ IF PromiseAnyRejects(attempts', rs)
                        THEN /\ race' = "rejected"
                             /\ cleared' = TRUE
                             /\ Throw(AggregateError(ErrorsOf(attempts')))
                        ELSE /\ race' = "pending"
                             /\ cleared' = FALSE
                             /\ pc' = "race"
                             /\ UNCHANGED <<status, error>>
        ELSE /\ hist' = [hist EXCEPT !.hit = has]
             /\ events' = IF op = "get" THEN Append(events, Ev("blockstore:get"))
                          ELSE events
             /\ pc' = "read"
             /\ UNCHANGED <<status, error, race, attempts, signalAborted, cleared,
                            counts>>
  /\ UNCHANGED <<blockstore, blockBrokers, sessions, dns, op, cur, pulled, offline, callerAborted,
                 out, winner, block, announcing>>

\* Faulty variant: signal.clear() after the await instead of in a finally
\* block, so that it is skipped when Promise.any rejects
SettleClearsOnSuccessOnly(i, a) ==
  LET atts == [attempts EXCEPT ![i] = a]
  IN /\ attempts' = atts
     /\ IF race = "pending" /\ a.st = "fulfilled"
        THEN /\ race' = "resolved"
             /\ winner' = i
             /\ block' = a.block
             /\ cleared' = TRUE
             /\ events' = Append(events, Ev("blockstore:put"))
             /\ pc' = "writeback"
             /\ UNCHANGED <<status, error>>
        ELSE IF race = "pending" /\ PromiseAnyRejects(atts, Retrievers(blockBrokers))
        THEN /\ race' = "rejected"
             /\ Throw(AggregateError(ErrorsOf(atts)))
             /\ UNCHANGED <<winner, block, events, cleared>>
        ELSE UNCHANGED <<race, winner, block, cleared, events, pc, status, error>>
     /\ UNCHANGED <<blockstore, blockBrokers, sessions, dns, op, cur, pulled,
                    offline, callerAborted, out, signalAborted, announcing,
                    counts, hist>>

\* Faulty variant: every attempt that returns a block is taken as the result,
\* the last one overriding the ones before
SettleLastWins(i, a) ==
  LET atts == [attempts EXCEPT ![i] = a]
  IN /\ attempts' = atts
     /\ IF race \in {"pending", "resolved"} /\ a.st = "fulfilled"
        THEN /\ race' = "resolved"
             /\ winner' = i
             /\ block' = a.block
             /\ cleared' = TRUE
             /\ events' = Append(events, Ev("blockstore:put"))
             /\ pc' = IF status = "running" THEN "writeback" ELSE pc
             /\ UNCHANGED <<status, error>>
        ELSE IF race = "pending" /\ PromiseAnyRejects(atts, Retrievers(blockBrokers))
        THEN /\ race' = "rejected"
             /\ cleared' = TRUE
             /\ Throw(AggregateError(ErrorsOf(atts)))
             /\ UNCHANGED <<winner, block, events>>
        ELSE UNCHANGED <<race, winner, block, cleared, events, pc, status, error>>
     /\ UNCHANGED <<blockstore, blockBrokers, sessions, dns, op, cur, pulled,
                    offline, callerAborted, out, signalAborted, announcing,
                    counts, hist>>

\* attempt i becomes a; Promise.any settles with the first fulfilled attempt or
\* once all have rejected, the finally block runs signal.clear(), and get goes
\* on to its next await
Settle(i, a) ==
  LET atts == [attempts EXCEPT ![i] = a]
  IN /\ attempts' = atts
     /\ IF race = "pending" /\ a.st = "fulfilled"
        THEN /\ race' = "resolved"
             /\ winner' = i
             /\ block' = a.block
             /\ cleared' = TRUE
             /\ events' = Append(events, Ev("blockstore:put"))
             /\ pc' = "writeback"
             /\ UNCHANGED <<status, error>>
        ELSE IF race = "pending" /\ PromiseAnyRejects(atts, Retrievers(blockBrokers))
        THEN /\ race' = "rejected"
             /\ cleared' = TRUE
             /\ Throw(AggregateError(ErrorsOf(atts)))
             /\ UNCHANGED <<winner, block, events>>
        ELSE UNCHANGED <<race, winner, block, cleared, events, pc, status, error>>
     /\ UNCHANGED <<blockstore, blockBrokers, sessions, dns, op, cur, pulled, offline,
                    callerAborted, out, signalAborted, announcing, counts, hist>>

\* the attempt's promise rejects with e; b: the bytes retrieve had returned
Rejected(e, b) == [NoAttempt EXCEPT !.st = "rejected", !.err = e, !.block = b]

\* the broker calls options.validateFn(b) during its retrieve; when it throws
\* the broker swallows the failure or lets it reject the retrieve
BrokerValidate ==
  \E i \in Idx, b \in Blocks, swallow \in BOOLEAN :
    /\ attempts[i].st = "pending"
    /\ IF Verify(cur.cid, b)
       THEN Settle(i, [attempts[i] EXCEPT !.cbInvoked = TRUE,
                                          !.blocksWereValidated = TRUE])
       ELSE IF swallow
       THEN Settle(i, [attempts[i] EXCEPT !.cbInvoked = TRUE])
       ELSE Settle(i, Rejected("ERR_HASH_MISMATCH", NoBlock))

\* retriever.retrieve resolves with b
BrokerResolve ==
  \E i \in Idx, b \in Blocks :
    /\ attempts[i].st = "pending"
    /\ IF Accepts(attempts[i].blocksWereValidated, cur.cid, b)
       THEN Settle(i, [attempts[i] EXCEPT !.st = "fulfilled", !.block = b])
       ELSE Settle(i, Rejected("ERR_HASH_MISMATCH", b))

\* retriever.retrieve rejects: a failure of its own, or the abort it observed
BrokerReject ==
  \E i \in Idx, e \in {"ERR_NETWORK", "ABORT_ERR"} :
    /\ attempts[i].st = "pending"
    /\ e = "ABORT_ERR" => signalAborted
    /\ Settle(i, Rejected(e, NoBlock))

\* `await this.child.put(cid, block, options)` settles, then the announce fan-out
GetWriteBack ==
  /\ status = "running"
  /\ pc = "writeback"
  /\ \E ok \in BOOLEAN :
       IF ok
       THEN /\ blockstore' = LocalPut(blockstore, cur.cid, block)
            /\ announcing' = Announcing0
            /\ counts' = CountAnnounce([counts EXCEPT !.put = @ + 1])
            /\ error' = error
            /\ IF PromiseAllResolves(announcing')
               THEN AfterAnnounce(Append(events, Ev("providers:notify")))
               ELSE /\ events' = Append(events, Ev("providers:notify"))
                    /\ pc' = "announce"
                    /\ UNCHANGED <<status, out>>
       ELSE /\ counts' = [counts EXCEPT !.put = @ + 1]
            /\ Throw(Err("ERR_PUT_FAILED"))
            /\ UNCHANGED <<blockstore, announcing, out, events>>
  /\ UNCHANGED <<blockBrokers, sessions, dns, op, cur, pulled, offline, callerAborted, race,
                 attempts, signalAborted, cleared, winner, block, hist>>

\* `this.child.get(cid, options)` settles
GetRead ==
  /\ status = "running"
  /\ pc = "read"
  /\ IF Has(blockstore, cur.cid)
     THEN /\ out' = <<[cid |-> cur.cid, block |-> LocalGet(blockstore, cur.cid)]>>
          /\ error' = error
          /\ IF op = "get"
             THEN /\ status' = "done"
                  /\ pc' = "done"
                  /\ UNCHANGED <<cur, pulled, hist>>
                  /\ KeepItem
             ELSE Advance
     ELSE /\ Throw(Err("ERR_NOT_FOUND"))
          /\ UNCHANGED <<out, cur, pulled, hist>>
          /\ KeepItem
  /\ UNCHANGED <<blockstore, blockBrokers, sessions, dns, op, offline, callerAborted, events,
                 counts>>

------------------------------------------------------------------------------

Next ==
  \/ CallPut
  \/ CallPutMany
  \/ CallGet
  \/ CallGetMany
  \/ Pull
  \/ CallerAbort
  \/ Delete
  \/ PutCheck
  \/ AnnounceSettle
  \/ PutWrite
  \/ GetCheck
  \/ BrokerValidate
  \/ BrokerResolve
  \/ BrokerReject
  \/ GetWriteBack
  \/ GetRead

Spec == Init /\ [][Next]_vars

------------------------------------------------------------------------------
\* createSession: a second facade over the same Local Tier

\* what a broker's createSession(root, options) returns: a broker scoped to
\* the session
SessionInstances == {BrokerR, BrokerRA}

\* Faulty variant: every broker is reused, session-capable or not
SameBrokers(brokers, capable, inst) == brokers

\* blockBrokers.map(broker => broker.createSession == null
\*   ? broker : broker.createSession(root, options))
\* capable: the brokers that expose createSession; inst: what it returns
SessionBrokers(brokers, capable, inst) ==
  [i \in 1..Len(brokers) |-> IF i \in capable THEN inst[i] ELSE brokers[i]]

\* createSession(root) on the facade: new NetworkedStorage({blockstore:
\* this.child, blockBrokers, ...}); it touches no call in flight
CreateSession ==
  /\ ~sessions.created
  /\ \E capable \in SUBSET Idx : \E inst \in [capable -> SessionInstances] :
       sessions' = [created |-> TRUE, self |-> "root", scoped |-> inst,
                    other |-> SessionBrokers(blockBrokers, capable, inst)]
  /\ UNCHANGED <<blockstore, blockBrokers, dns, op, pc, cur, pulled, offline,
                 callerAborted, status, out, error, events, race, attempts,
                 signalAborted, cleared, winner, block, announcing, counts, hist>>

\* the caller turns to the other facade: its methods run with its own
\* components.blockBrokers on the shared blockstore; no call is in flight on it
UseFacade ==
  /\ sessions.created
  /\ status # "running"
  /\ blockBrokers' = sessions.other
  /\ sessions' = [sessions EXCEPT
       !.self = IF @ = "root" THEN "session" ELSE "root",
       !.other = blockBrokers]
  /\ op' = "none"
  /\ pc' = "done"
  /\ status' = "idle"
  /\ cur' = [cid |-> cidSha, block |-> NoBlock]
  /\ pulled' = 0
  /\ offline' = FALSE
  /\ callerAborted' = FALSE
  /\ out' = <<>>
  /\ error' = NoError
  /\ events' = <<>>
  /\ counts' = ZeroCounts(sessions.other)
  /\ hist' = [hit |-> FALSE, deleted |-> FALSE, abortedRacing |-> FALSE,
              before |-> <<>>, fetched |-> Fetched]
  /\ ResetItem
  /\ UNCHANGED <<blockstore, dns>>

\* the single-block methods of both facades
NextSession ==
  \/ CreateSession
  \/ UseFacade
  \/ CallPut
  \/ CallGet
  \/ Delete
  \/ PutCheck
  \/ AnnounceSettle
  \/ PutWrite
  \/ GetCheck
  \/ BrokerValidate
  \/ BrokerResolve
  \/ BrokerReject
  \/ GetWriteBack
  \/ GetRead

SpecSession == Init /\ [][NextSession]_vars

------------------------------------------------------------------------------
\* get under the assumption that what it awaits settles

\* get, with deletes and the caller's abort interleaved
NextLive ==
  \/ CallGet
  \/ CallerAbort
  \/ Delete
  \/ GetCheck
  \/ BrokerValidate
  \/ BrokerResolve
  \/ BrokerReject
  \/ GetWriteBack
  \/ AnnounceSettle
  \/ GetRead

\* child.has, child.put and child.get complete, every announce settles, and
\* every retrieve that is pending resolves or rejects
Settling ==
  /\ WF_vars(GetCheck)
  /\ WF_vars(BrokerResolve \/ BrokerReject)
  /\ WF_vars(GetWriteBack)
  /\ WF_vars(AnnounceSettle)
  /\ WF_vars(GetRead)

SpecLive == Init /\ [][NextLive]_vars /\ Settling

------------------------------------------------------------------------------
\* A progress observer that throws

\* options.onProgress throws at `blocks:put:blockstore:put` (put, before
\* child.put), `blocks:get:blockstore:put` (get, before the write-back) or
\* `blocks:get:blockstore:get` (get, before child.get): the call is inside the
\* async method, unguarded, so the method rejects with what the observer threw
ObserverThrow ==
  /\ status = "running"
  /\ \/ op = "put" /\ pc = "write"
     \/ op = "get" /\ pc = "writeback"
     \/ op = "get" /\ pc = "read" /\ events # <<>>
  /\ Throw(Err("OBSERVER_THROWN"))
  /\ UNCHANGED <<blockstore, blockBrokers, sessions, dns, op, cur, pulled,
                 offline, callerAborted, out, events, race, attempts,
                 signalAborted, cleared, winner, block, announcing, counts, hist>>

\* put, get and delete with an observer that may throw
NextObserver ==
  \/ ObserverThrow
  \/ CallPut
  \/ CallGet
  \/ Delete
  \/ PutCheck
  \/ AnnounceSettle
  \/ PutWrite
  \/ GetCheck
  \/ BrokerValidate
  \/ BrokerResolve
  \/ BrokerReject
  \/ GetWriteBack
  \/ GetRead

SpecObserver == Init /\ [][NextObserver]_vars

------------------------------------------------------------------------------
\* The DNS resolve utility: resolve(domain, options)

Domains == {"a.example", "b.example"}
\* the DNSLink records a lookup may answer with
Records == {"/ipfs/a", "/ipns/b"}
\* options.signal: absent, not yet aborted, or already aborted
Signals == {"none", "live", "aborted"}

\* resolve is called: the abort listener is registered on the signal, if there
\* is one, the query event goes to options.onProgress, if there is one, and
\* the lookup starts
DnsResolve ==
  /\ dns.pc # "lookup"
  /\ \E d \in Domains, sig \in Signals, onProgress \in BOOLEAN :
       dns' = [pc |-> "lookup", domain |-> d, signal |-> sig,
               listening |-> sig # "none", cancelled |-> FALSE,
               events |-> IF onProgress THEN <<"dnslink:query">> ELSE <<>>,
               result |-> "none"]
  /\ UNCHANGED <<blockstore, blockBrokers, sessions, op, pc, cur, pulled,
                 offline, callerAborted, status, out, error, events, race,
                 attempts, signalAborted, cleared, winner, block, announcing,
                 counts, hist>>

\* the caller's signal fires: its abort event runs the listeners registered at
\* that moment, and the listener of resolve calls resolver.cancel()
DnsSignalAbort ==
  /\ dns.signal = "live"
  /\ dns' = [dns EXCEPT !.signal = "aborted",
                        !.cancelled = @ \/ dns.listening]
  /\ UNCHANGED <<blockstore, blockBrokers, sessions, op, pc, cur, pulled,
                 offline, callerAborted, status, out, error, events, race,
                 attempts, signalAborted, cleared, winner, block, announcing,
                 counts, hist>>

\* resolveFn answers: the answer event, the record is returned, and the
\* finally block removes the listener
DnsAnswer ==
  /\ dns.pc = "lookup"
  /\ ~dns.cancelled
  /\ \E r \in Records :
       dns' = [dns EXCEPT !.pc = "returned", !.result = r,
                          !.events = IF @ = <<>> THEN @
                                     ELSE Append(@, "dnslink:answer"),
                          !.listening = FALSE]
  /\ UNCHANGED <<blockstore, blockBrokers, sessions, op, pc, cur, pulled,
                 offline, callerAborted, status, out, error, events, race,
                 attempts, signalAborted, cleared, winner, block, announcing,
                 counts, hist>>

\* resolveFn rejects (a cancelled resolver rejects its queries with
\* ECANCELLED): resolve rejects, and the finally block removes the listener
DnsFail ==
  /\ dns.pc = "lookup"
  /\ dns' = [dns EXCEPT !.pc = "threw",
                        !.result = IF dns.cancelled THEN "ECANCELLED"
                                   ELSE "ENOTFOUND",
                        !.listening = FALSE]
  /\ UNCHANGED <<blockstore, blockBrokers, sessions, op, pc, cur, pulled,
                 offline, callerAborted, status, out, error, events, race,
                 attempts, signalAborted, cleared, winner, block, announcing,
                 counts, hist>>

NextDns ==
  \/ DnsResolve
  \/ DnsSignalAbort
  \/ DnsAnswer
  \/ DnsFail

SpecDns == Init /\ [][NextDns]_vars

------------------------------------------------------------------------------
\* Properties

GetFamily == op \in {"get", "getMany"}
Ended == status \in {"done", "failed"}
NoBrokerCalled ==
  \A i \in Idx : counts.retrieve[i] = 0 /\ counts.announce[i] = 0
\* the call took the network branch of get / getMany for the current item
WentToNetwork ==
  GetFamily /\ \E k \in DOMAIN events : events[k] = Ev("providers:get")

\* C1: every block get or getMany hands to the caller, read from the Local
\* Tier or won in the race, hashes to the CID it was asked for.
C1_ReturnedBlocksHashToCid ==
  (GetFamily /\ out # <<>>) => Verify(out[1].cid, out[1].block)

\* C2: every (cid, block) the Local Tier's store holds satisfies
\* digest(block) = cid.digest.
C2_StoredBlocksHashToCid ==
  \A c \in DOMAIN blockstore : Verify(c, blockstore[c])

\* C3: once the race has accepted a winner, the signal every other attempt
\* still in flight was given is aborted.
C3_LosersAreCancelled ==
  race = "resolved" =>
    \A i \in Idx : (i # winner /\ attempts[i].st = "pending") => signalAborted

\* C4: an attempt whose retrieve returned bytes that do not hash to the CID is
\* an ordinary failure: it rejects and is never the attempt the race resolves
\* with.
C4_MismatchNeverWins ==
  \A i \in Idx :
    (attempts[i].block # NoBlock /\ ~Verify(cur.cid, attempts[i].block)) =>
      (attempts[i].st = "rejected" /\ winner # i)

\* C5: when the caller's signal fires while the brokers are racing, every
\* attempt in flight sees its signal aborted, and the call ends only by failing
\* with the cancellation failure.
C5_CallerAbortFailsTheCall ==
  (GetFamily /\ hist.abortedRacing) =>
    /\ signalAborted
    /\ Ended => (status = "failed" /\ error.kind = "ABORT_ERR")

\* C6: a broker's rejecting announce never fails the enclosing put or get.
C6_AnnounceFailureNotEscalated ==
  (\E i \in Idx : announcing[i] = "failed") => status # "failed"

\* C7: a get whose existence check found the CID in the Local Tier calls no
\* broker (no retrieve, no announce), starts no race, writes nothing, and
\* returns the block the Local Tier holds; it can only fail with the Local
\* Tier's not-found, when a delete removed the block after the check.
C7_LocalHitCallsNoBroker ==
  (op = "get" /\ hist.hit) =>
    /\ NoBrokerCalled
    /\ race = "idle"
    /\ counts.put = 0
    /\ status = "done" =>
         /\ out[1].cid = cur.cid
         /\ ~hist.deleted => out[1].block = LocalGet(blockstore, cur.cid)
    /\ status = "failed" => (hist.deleted /\ error = Err("ERR_NOT_FOUND"))

C7_Witness ==
  /\ op = "get" /\ hist.hit /\ ~offline /\ status = "done"
  /\ ~IsIdentity(cur.cid)
  /\ Retrievers(blockBrokers) # {} /\ Announcers(blockBrokers) # {}

\* C8: an offline get / getMany calls no broker (no retrieve, no announce),
\* starts no race and never writes to the Local Tier; it fails only with the
\* Local Tier's not-found, and it returns a block only if the Local Tier held it.
C8_OfflineCallsNoBroker ==
  (GetFamily /\ offline) =>
    /\ NoBrokerCalled
    /\ race = "idle"
    /\ counts.put = 0
    /\ status = "failed" => error = Err("ERR_NOT_FOUND")
    /\ (pc = "done" /\ ~hist.hit /\ (op = "get" \/ pulled > 0)) =>
         status = "failed"

C8_Witness ==
  /\ op = "get" /\ offline /\ status = "failed" /\ error = Err("ERR_NOT_FOUND")
  /\ Retrievers(blockBrokers) # {} /\ Announcers(blockBrokers) # {}

\* C9: when put(cid) follows a put of the same CID that found the CID missing
\* and returned, with no delete of the CID in between, the two calls together
\* make one announce per announcing broker and one local write: the second call
\* emits only the duplicate event, announces nothing, writes nothing and
\* returns the CID.
C9_SecondPutIsDuplicate ==
  (op = "put" /\ hist.before # <<>> /\ ~hist.deleted /\ pc # "check") =>
    (~hist.before[1].dup =>
       /\ \A i \in Idx :
            hist.before[1].announce[i] + counts.announce[i]
              = IF i \in Announcers(blockBrokers) THEN 1 ELSE 0
       /\ hist.before[1].put + counts.put = 1
       /\ status = "done"
       /\ events = <<Ev("duplicate")>>
       /\ out = <<cur.cid>>)

C9_Witness ==
  /\ op = "put" /\ hist.before # <<>> /\ ~hist.before[1].dup
  /\ status = "done"
  /\ Announcers(blockBrokers) # {}

\* C10 as stated: a get that goes to the brokers fails with an empty aggregate
\* error, no broker called, when no broker retrieves; and with an aggregate
\* error wrapping every attempt's failure when all attempts fail.
C10_AsStated ==
  (WentToNetwork /\ pc # "check") =>
    /\ Retrievers(blockBrokers) = {} =>
         (status = "failed" /\ error = AggregateError(<<>>) /\ NoBrokerCalled)
    /\ (\A i \in Retrievers(blockBrokers) : attempts[i].st = "rejected") =>
         (status = "failed" /\ error = AggregateError(ErrorsOf(attempts)))

\* C10 amended: the same for a CID whose multihash code has a hasher
\* configured (a get of any other CID fails with ERR_UNKNOWN_HASH_ALG before
\* the brokers are looked at): the aggregate error holds one failure per
\* retriever, and get fails with it only once every attempt has rejected.
C10_AggregateErrorWhenAllFail ==
  (WentToNetwork /\ pc # "check" /\ HasHasher(cur.cid)) =>
    /\ Retrievers(blockBrokers) = {} =>
         (status = "failed" /\ error = AggregateError(<<>>) /\ NoBrokerCalled)
    /\ (\A i \in Retrievers(blockBrokers) : attempts[i].st = "rejected") =>
         /\ status = "failed"
         /\ error = AggregateError(ErrorsOf(attempts))
         /\ Len(error.errors) = Cardinality(Retrievers(blockBrokers))
         /\ \A k \in DOMAIN error.errors :
              error.errors[k] \in {"ERR_NETWORK", "ABORT_ERR", "ERR_HASH_MISMATCH"}
    /\ error.kind = "AggregateError" =>
         \A i \in Retrievers(blockBrokers) : attempts[i].st = "rejected"

C10_Witness ==
  /\ op = "get" /\ status = "failed" /\ race = "rejected"
  /\ Cardinality(Retrievers(blockBrokers)) = 2
  /\ error = AggregateError(<<"ERR_HASH_MISMATCH", "ERR_NETWORK">>)

------------------------------------------------------------------------------
\* Session facades

\* components.blockBrokers of the facade createSession was called on
RootBrokers == IF sessions.self = "root" THEN blockBrokers ELSE sessions.other
\* components.blockBrokers of the facade createSession returned
SessionFacadeBrokers ==
  IF sessions.self = "session" THEN blockBrokers ELSE sessions.other

C11_SessionList ==
  sessions.created =>
    /\ Len(SessionFacadeBrokers) = Len(RootBrokers)
    /\ \A i \in 1..Len(RootBrokers) :
         SessionFacadeBrokers[i] = IF i \in DOMAIN sessions.scoped
                                   THEN sessions.scoped[i] ELSE RootBrokers[i]
C11_SessionRouting ==
  sessions.self = "session" =>
    \A i \in Idx :
      /\ counts.retrieve[i] > 0 => isRetrievingBlockBroker(SessionFacadeBrokers[i])
      /\ counts.announce[i] > 0 => SessionFacadeBrokers[i].announce
C11_SharedLocalTier ==
  /\ (op = "get" /\ pc # "check" /\ ~hist.deleted
        /\ \E f \in hist.fetched : f.cid = cur.cid /\ f.by # sessions.self) =>
       (hist.hit /\ \A i \in Idx : counts.retrieve[i] = 0)
  /\ (op = "get" /\ hist.hit /\ status = "done" /\ ~hist.deleted) =>
       out[1].block = LocalGet(blockstore, cur.cid)

\* C11: the facade createSession returns has the broker list of the original
\* with each broker that exposes createSession replaced by what its
\* createSession returned and every other broker reused; its retrieve and
\* announce calls go to the brokers of that list; both facades read and write
\* one Local Tier (a block fetched through one is a local hit of the other);
\* and the original facade's broker list never changes.
C11_SessionFacade ==
  /\ [](C11_SessionList /\ C11_SessionRouting /\ C11_SharedLocalTier)
  /\ [][RootBrokers' = RootBrokers]_vars

C11_Witness ==
  /\ sessions.self = "session" /\ op = "get" /\ status = "done" /\ hist.hit
  /\ ~offline
  /\ [cid |-> cur.cid, by |-> "root"] \in hist.fetched
  /\ DOMAIN sessions.scoped # {} /\ DOMAIN sessions.scoped # Idx
  /\ Retrievers(blockBrokers) # {}

------------------------------------------------------------------------------
\* Progress observers

\* C12: a throwing progress observer never aborts the operation: no put or
\* get fails with what the observer threw, and a put that reached its write
\* event with every announce done ends only with the outcome of child.put.
C12_ObserverNeverAborts ==
  /\ status = "failed" => error.kind # "OBSERVER_THROWN"
  /\ (op = "put" /\ Ended /\ events # <<>>
        /\ events[Len(events)] = Ev("blockstore:put")) => counts.put = 1

------------------------------------------------------------------------------
\* The configuration error

\* the get in flight found its CID missing and no hasher is configured for it
MissingWithoutHasher ==
  op = "get" /\ pc # "check" /\ ~hist.hit /\ cur.cid.code \notin hashers

\* what C13 promises of such a get
FailsUnconfigured ==
  /\ status = "failed"
  /\ error = Err("ERR_UNKNOWN_HASH_ALG")
  /\ NoBrokerCalled
  /\ race = "idle"
  /\ counts.put = 0

\* C13 as stated: every get of a locally missing CID without a configured
\* hasher fails with ERR_UNKNOWN_HASH_ALG, no broker called, nothing written.
C13_AsStated == MissingWithoutHasher => FailsUnconfigured

\* C13 amended: the same for a get that is not offline (an offline get never
\* builds the verifier and fails with the Local Tier's not-found).
C13_UnknownHashAlgFailsBeforeBrokers ==
  /\ (MissingWithoutHasher /\ ~offline) => FailsUnconfigured
  /\ (MissingWithoutHasher /\ offline /\ Ended) =>
       (status = "failed" /\ error = Err("ERR_NOT_FOUND"))

C13_Witness ==
  /\ op = "get" /\ status = "failed" /\ error = Err("ERR_UNKNOWN_HASH_ALG")
  /\ ~offline /\ ~hist.hit
  /\ Retrievers(blockBrokers) # {} /\ Announcers(blockBrokers) # {}

------------------------------------------------------------------------------
\* DNS resolve

\* C14: while a lookup is running with the caller's signal aborted, whether it
\* fired during the lookup or before resolve was called, the lookup has been
\* cancelled, so resolve never returns a record under an aborted signal it
\* was listening to; and once resolve has returned or thrown its listener is
\* off the signal.
C14_AbortCancelsLookup ==
  /\ (dns.pc = "lookup" /\ dns.signal = "aborted") => dns.cancelled
  /\ dns.pc \in {"returned", "threw"} => ~dns.listening

------------------------------------------------------------------------------
\* Ordering inside one call

\* every broker that can be announced to has been, and its announce resolved
AllAnnounced ==
  \A i \in Idx :
    IF i \in Announcers(blockBrokers)
    THEN announcing[i] = "ok" /\ counts.announce[i] = 1
    ELSE announcing[i] = "none" /\ counts.announce[i] = 0

\* C15: in a put nothing is announced or written before the existence check,
\* and child.put is called only when every broker's announce has resolved; in
\* a get no broker is called and nothing is written before the existence
\* check, retrieve is called only after the check found the CID missing, and
\* announce is called only after the write-back succeeded (a get whose
\* write-back fails announces nothing).
C15_OrderWithinOneCall ==
  /\ (op = "put" /\ status = "running" /\ pc = "check") =>
       (NoBrokerCalled /\ counts.put = 0)
  /\ (op = "put" /\ (pc = "write" \/ counts.put > 0)) => AllAnnounced
  /\ (op = "get" /\ status = "running" /\ pc = "check") =>
       (NoBrokerCalled /\ counts.put = 0 /\ race = "idle")
  /\ (op = "get" /\ \E i \in Idx : counts.retrieve[i] > 0) => ~hist.hit
  /\ (op = "get" /\ \E i \in Idx : counts.announce[i] > 0) =>
       (counts.put = 1 /\ race = "resolved" /\ error # Err("ERR_PUT_FAILED"))
  /\ (op = "get" /\ error = Err("ERR_PUT_FAILED")) =>
       \A i \in Idx : counts.announce[i] = 0 /\ announcing[i] = "none"

C15_Witness ==
  /\ op = "put" /\ status = "done" /\ counts.put = 1
  /\ Cardinality(Announcers(blockBrokers)) = 2
  /\ cur.cid \in DOMAIN blockstore

------------------------------------------------------------------------------
\* Validation inside the race

\* the engine ran validateFn(block) itself before the attempt returned its
\* block: it does so exactly when blocksWereValidated is not set
EngineValidated(a) == a.st = "fulfilled" /\ ~a.blocksWereValidated

\* C16: for every attempt that returned a block: if the broker did not invoke
\* the validate callback the engine validated the returned bytes; if the
\* broker did invoke it the engine did not validate again; and the returned
\* bytes have passed the validator.
C16_AcceptedBlocksVerifiedOnce ==
  \A i \in Idx :
    attempts[i].st = "fulfilled" =>
      /\ ~attempts[i].cbInvoked => EngineValidated(attempts[i])
      /\ attempts[i].cbInvoked => ~EngineValidated(attempts[i])
      /\ Verify(cur.cid, attempts[i].block)

------------------------------------------------------------------------------
\* Cleanup of the combined signal

\* C17: once the race has settled, with a winner, with every attempt failed,
\* or after the caller's signal fired, signal.clear() has run: the get that
\* started the race never goes on to its write-back, its announces or its end
\* with the combined signal's listeners still in place, and never clears them
\* while the race is pending.
C17_SignalClearedOnEveryExit ==
  GetFamily =>
    /\ race \in {"resolved", "rejected"} => cleared
    /\ (race # "idle" /\ (Ended \/ pc \in {"writeback", "announce", "read"})) =>
         cleared
    /\ race = "pending" => (~cleared /\ pc = "race" /\ status = "running")

C17_Witness ==
  /\ op = "get" /\ status = "failed" /\ race = "rejected" /\ cleared
  /\ hist.abortedRacing
  /\ \E i \in Idx : attempts[i].err = "ABORT_ERR"

------------------------------------------------------------------------------
\* After a successful fetch

\* C18: when a get that fetched its block through the race returns, with no
\* delete of the CID since its write-back, the Local Tier holds the CID with
\* the block returned and every broker that can be announced to has been;
\* and a get, on either facade, of a CID that such a get fetched, with no
\* delete of it since, finds it in the Local Tier: it starts no race and calls
\* no retrieve.
C18_FetchedBlockIsLocalAfterwards ==
  /\ (op = "get" /\ status = "done" /\ race = "resolved" /\ ~hist.deleted) =>
       /\ cur.cid \in DOMAIN blockstore
       /\ blockstore[cur.cid] = out[1].block
       /\ AllAnnounced
  /\ (op = "get" /\ pc # "check" /\ \E f \in hist.fetched : f.cid = cur.cid) =>
       /\ hist.hit
       /\ race = "idle"
       /\ \A i \in Idx : counts.retrieve[i] = 0

C18_Witness ==
  /\ op = "get" /\ status = "done" /\ hist.hit /\ ~offline
  /\ [cid |-> cur.cid, by |-> sessions.self] \in hist.fetched
  /\ sessions.created
  /\ Retrievers(blockBrokers) # {} /\ Announcers(blockBrokers) # {}

------------------------------------------------------------------------------
\* One write per get

C19_OneWrite ==
  GetFamily =>
    /\ counts.put <= 1
    /\ race = "resolved" => (winner \in Idx /\ block = attempts[winner].block)
    /\ (status = "done" /\ race = "resolved") =>
         /\ out[1] = [cid |-> cur.cid, block |-> block]
         /\ ~hist.deleted => blockstore[cur.cid] = block
    /\ race # "resolved" =>
         (counts.put = 0 /\ \A i \in Idx : counts.announce[i] = 0)

\* an attempt settles after the race has resolved
C19_LateSettle ==
  race = "resolved" /\ race' = "resolved" /\ attempts' # attempts

\* C19: a get (or one item of a getMany) writes at most once, and what it
\* writes and returns is the block of the attempt the race resolved with; a
\* get whose race did not resolve writes nothing and announces nothing; and
\* an attempt that resolves or rejects after the race has resolved changes
\* nothing but its own record: no write, no announce, no change of the result.
C19_LosersHaveNoEffect ==
  /\ []C19_OneWrite
  /\ [][C19_LateSettle =>
         UNCHANGED <<blockstore, block, winner, out, status, error, counts,
                     announcing, events, pc, cleared, signalAborted>>]_vars

C19_Witness ==
  /\ op = "get" /\ status = "done" /\ race = "resolved"
  /\ \E i \in Idx :
       i # winner /\ attempts[i].st = "fulfilled" /\ attempts[i].block # block
  /\ cur.cid \in DOMAIN blockstore
  /\ blockstore[cur.cid] = block

------------------------------------------------------------------------------
\* Termination of get

\* C20: when everything a get awaits settles, every get in flight ends, by
\* returning or by throwing; and the race is over as soon as one attempt has
\* returned a block it accepted, whatever the other attempts do.
C20_GetCompletes ==
  /\ []((\E i \in Idx : attempts[i].st = "fulfilled") => race = "resolved")
  /\ ((op = "get" /\ status = "running") ~> Ended)

C20_Witness ==
  /\ op = "get" /\ status = "done" /\ race = "resolved" /\ ~hist.hit
  /\ \E i \in Idx : attempts[i].st = "pending"

====
